---- MODULE Spec2Model ----
(***************************************************************************)
(* Huffman coding as implemented in src/huffman.py: frequency counting,    *)
(* tree construction, code generation, the textual header, and the         *)
(* encoder and decoder that are built from them.                           *)
(*                                                                         *)
(* Files are sequences: in_file and decode_file are sequences of code      *)
(* points (the values ord() gives), out_file is a sequence of one-         *)
(* character strings.  A frequency table or code table is a function on    *)
(* 0 .. TableSize-1, as the Python lists are indexed.                      *)
(***************************************************************************)
EXTENDS Integers, Sequences, FiniteSets, TLC

VARIABLES in_file, freqs, out_file, caller, nodes, tree, codes, pos,
          freq_list, huffman_tree, current_node, decode_file, result, pc

vars == <<in_file, freqs, out_file, caller, nodes, tree, codes, pos,
          freq_list, huffman_tree, current_node, decode_file, result, pc>>

(***************************************************************************)
(* Bounds of the model and constants of the program.                       *)
(***************************************************************************)
TableSize == 256

MaxLen == 3

MaxFreq == 2

MaxBits == 4

MaxFields == 3

Symbols == {0, 97, 98, 255}

BitChars == {"0", "1", "x"}

Indices == 0 .. (TableSize - 1)

ZeroTable == [i \in Indices |-> 0]

EmptyCodes == [i \in Indices |-> <<>>]

(***************************************************************************)
(* HuffmanNode and the ordering.                                           *)
(***************************************************************************)
None == [isNone |-> TRUE]

HuffmanNode(char_ascii, freq, left, right) ==
    [isNone |-> FALSE, char_ascii |-> char_ascii, freq |-> freq,
     left |-> left, right |-> right]

comes_before(a, b) ==
    IF a.freq # b.freq THEN a.freq < b.freq ELSE a.char_ascii < b.char_ascii

\* combine with the children the wrong way round.
combine_children_swapped(a, b) ==
    IF comes_before(a, b)
    THEN HuffmanNode(a.char_ascii, a.freq + b.freq, b, a)
    ELSE HuffmanNode(b.char_ascii, a.freq + b.freq, a, b)

combine(a, b) ==
    IF comes_before(a, b)
    THEN HuffmanNode(a.char_ascii, a.freq + b.freq, a, b)
    ELSE HuffmanNode(b.char_ascii, a.freq + b.freq, b, a)

(***************************************************************************)
(* cnt_freq: one count per code point of the file.                         *)
(***************************************************************************)
cnt_freq(file) ==
    [c \in Indices |-> Cardinality({i \in 1 .. Len(file) : file[i] = c})]

(***************************************************************************)
(* create_huff_tree: the initial working list, the sort by                 *)
(* (freq, char_ascii) -- list.sort is stable -- and one loop iteration.    *)
(***************************************************************************)
\* The constructor's two arguments the wrong way round.
initial_nodes_swapped(char_freq) ==
    SelectSeq([k \in 1 .. TableSize |-> HuffmanNode(char_freq[k - 1], k - 1, None, None)],
              LAMBDA n : n.char_ascii > 0)

initial_nodes(char_freq) ==
    SelectSeq([k \in 1 .. TableSize |-> HuffmanNode(k - 1, char_freq[k - 1], None, None)],
              LAMBDA n : n.freq > 0)

sort_key_lt(x, y) ==
    \/ x.freq < y.freq
    \/ x.freq = y.freq /\ x.char_ascii < y.char_ascii

RECURSIVE insert_sorted(_, _)
insert_sorted(x, s) ==
    IF Len(s) = 0 THEN <<x>>
    ELSE IF sort_key_lt(x, Head(s)) THEN <<x>> \o s
    ELSE <<Head(s)>> \o insert_sorted(x, Tail(s))

RECURSIVE sort(_)
sort(s) ==
    IF Len(s) = 0 THEN <<>>
    ELSE insert_sorted(s[Len(s)], sort(SubSeq(s, 1, Len(s) - 1)))

loop_body(ns) ==
    LET sorted == sort(ns)
        left   == sorted[1]
        right  == sorted[2]
        parent == combine(left, right)
    IN  Append(SubSeq(sorted, 3, Len(sorted)), parent)

(***************************************************************************)
(* create_code.                                                            *)
(***************************************************************************)
\* traverse appending '0' on both sides.
RECURSIVE traverse_same_bit(_, _, _)
traverse_same_bit(current, current_code, cs) ==
    LET c1 == IF current.left.isNone /\ current.right.isNone
              THEN [cs EXCEPT ![current.char_ascii] = current_code]
              ELSE cs
        c2 == IF ~current.left.isNone
              THEN traverse_same_bit(current.left, Append(current_code, "0"), c1)
              ELSE c1
    IN  IF ~current.right.isNone
        THEN traverse_same_bit(current.right, Append(current_code, "0"), c2)
        ELSE c2

RECURSIVE traverse(_, _, _)
traverse(current, current_code, cs) ==
    LET c1 == IF current.left.isNone /\ current.right.isNone
              THEN [cs EXCEPT ![current.char_ascii] = current_code]
              ELSE cs
        c2 == IF ~current.left.isNone
              THEN traverse(current.left, Append(current_code, "0"), c1)
              ELSE c1
    IN  IF ~current.right.isNone
        THEN traverse(current.right, Append(current_code, "1"), c2)
        ELSE c2

create_code(node) ==
    IF node.isNone THEN EmptyCodes ELSE traverse(node, <<>>, EmptyCodes)

(***************************************************************************)
(* Text: str() and int() on decimal numerals, str.split, str.strip,        *)
(* ' '.join and readline.                                                  *)
(***************************************************************************)
Digits == <<"0", "1", "2", "3", "4", "5", "6", "7", "8", "9">>

IsDigit(c) == \E d \in 1 .. 10 : Digits[d] = c

DigitVal(c) == (CHOOSE d \in 1 .. 10 : Digits[d] = c) - 1

Whitespace == {" ", "\n", "\t", "\r"}

\* str with the digits in the reverse order.
RECURSIVE str_reversed(_)
str_reversed(n) ==
    IF n < 0 THEN <<"-">> \o str_reversed(0 - n)
    ELSE IF n < 10 THEN <<Digits[n + 1]>>
    ELSE <<Digits[(n % 10) + 1]>> \o str_reversed(n \div 10)

RECURSIVE str(_)
str(n) ==
    IF n < 0 THEN <<"-">> \o str(0 - n)
    ELSE IF n < 10 THEN <<Digits[n + 1]>>
    ELSE str(n \div 10) \o <<Digits[(n % 10) + 1]>>

RECURSIVE digits_value(_, _)
digits_value(s, acc) ==
    IF Len(s) = 0 THEN acc
    ELSE digits_value(Tail(s), 10 * acc + DigitVal(Head(s)))

\* int(field): an optional sign and at least one decimal digit, else ValueError.
int(field) ==
    LET signed == Len(field) > 0 /\ field[1] \in {"+", "-"}
        body   == IF signed THEN Tail(field) ELSE field
        ok     == Len(body) > 0 /\ \A i \in 1 .. Len(body) : IsDigit(body[i])
    IN  IF ~ok THEN [raised |-> TRUE, value |-> 0]
        ELSE [raised |-> FALSE,
              value |-> IF signed /\ field[1] = "-"
                        THEN 0 - digits_value(body, 0)
                        ELSE digits_value(body, 0)]

RECURSIVE lstrip(_)
lstrip(s) ==
    IF Len(s) > 0 /\ Head(s) \in Whitespace THEN lstrip(Tail(s)) ELSE s

RECURSIVE rstrip(_)
rstrip(s) ==
    IF Len(s) > 0 /\ s[Len(s)] \in Whitespace
    THEN rstrip(SubSeq(s, 1, Len(s) - 1))
    ELSE s

strip(s) == rstrip(lstrip(s))

\* str.split(): the maximal runs of non-whitespace characters.
RECURSIVE split_from(_, _, _)
split_from(s, word, acc) ==
    IF Len(s) = 0 THEN (IF Len(word) = 0 THEN acc ELSE Append(acc, word))
    ELSE IF Head(s) \in Whitespace
         THEN split_from(Tail(s), <<>>, IF Len(word) = 0 THEN acc ELSE Append(acc, word))
         ELSE split_from(Tail(s), Append(word, Head(s)), acc)

split(s) == split_from(s, <<>>, <<>>)

RECURSIVE join(_)
join(words) ==
    IF Len(words) = 0 THEN <<>>
    ELSE IF Len(words) = 1 THEN words[1]
    ELSE words[1] \o <<" ">> \o join(Tail(words))

\* file.readline() at the start of the file: up to and including the first "\n".
RECURSIVE readline(_)
readline(text) ==
    IF Len(text) = 0 THEN <<>>
    ELSE IF Head(text) = "\n" THEN <<"\n">>
    ELSE <<Head(text)>> \o readline(Tail(text))

\* The lines the iteration "for line in file" yields after readline().
RECURSIVE lines(_)
lines(text) ==
    IF Len(text) = 0 THEN <<>>
    ELSE LET l == readline(text)
         IN  <<l>> \o lines(SubSeq(text, Len(l) + 1, Len(text)))

(***************************************************************************)
(* create_header and parse_header.                                         *)
(***************************************************************************)
\* The loop of lines 94-96 over the indices lo .. hi, in ascending order.
RECURSIVE header_fields(_, _, _)
header_fields(fs, lo, hi) ==
    IF lo > hi THEN <<>>
    ELSE IF lo = hi THEN (IF fs[lo] # 0 THEN <<str(lo), str(fs[lo])>> ELSE <<>>)
    ELSE LET mid == (lo + hi) \div 2
         IN  header_fields(fs, lo, mid) \o header_fields(fs, mid + 1, hi)

create_header(fs) == join(header_fields(fs, 0, TableSize - 1))

\* list assignment freq_list[char_ascii] = freq: a negative index counts from
\* the end of the list, an index outside -TableSize .. TableSize-1 is an IndexError.
RECURSIVE parse_pairs(_, _, _)
parse_pairs(header_list, i, fl) ==
    IF i > Len(header_list) THEN [raised |-> FALSE, freq_list |-> fl]
    ELSE LET char_ascii == int(header_list[i])
         IN  IF char_ascii.raised \/ i + 1 > Len(header_list)
             THEN [raised |-> TRUE, freq_list |-> ZeroTable]
             ELSE LET freq == int(header_list[i + 1])
                      c    == char_ascii.value
                  IN  IF freq.raised \/ c >= TableSize \/ c < 0 - TableSize
                      THEN [raised |-> TRUE, freq_list |-> ZeroTable]
                      ELSE parse_pairs(header_list, i + 2,
                               [fl EXCEPT ![IF c < 0 THEN TableSize + c ELSE c] = freq.value])

parse_header(header_string) == parse_pairs(split(header_string), 1, ZeroTable)

(***************************************************************************)
(* Inputs: the files the runs start from.                                  *)
(***************************************************************************)
SeqsUpTo(S, n) == UNION {[1 .. k -> S] : k \in 0 .. n}

BoundedTables ==
    {[c \in Indices |-> IF c \in Symbols THEN g[c] ELSE 0] : g \in [Symbols -> 0 .. MaxFreq]}

\* The counts of file2.txt, as the tests state them.
File2Table ==
    [c \in Indices |-> CASE c = 97 -> 2 [] c = 98 -> 4 [] c = 99 -> 8
                         [] c = 100 -> 16 [] c = 102 -> 2 [] OTHER -> 0]

\* A file with the counts fs: its characters in ascending order.
RECURSIVE text_of(_, _, _)
text_of(fs, lo, hi) ==
    IF lo > hi THEN <<>>
    ELSE IF lo = hi THEN [k \in 1 .. fs[lo] |-> lo]
    ELSE LET mid == (lo + hi) \div 2
         IN  text_of(fs, lo, mid) \o text_of(fs, mid + 1, hi)

Inputs ==
    SeqsUpTo(Symbols, MaxLen)
        \cup {text_of(f, 0, TableSize - 1) : f \in BoundedTables}
        \cup {text_of(File2Table, 0, TableSize - 1)}

FieldPool ==
    {<<"9", "7">>, <<"2">>, <<"0">>, <<"2", "5", "6">>, <<"-", "1">>,
     <<"-", "2", "5", "7">>, <<"+", "5">>, <<"x">>}

ValidHeaders == {create_header(cnt_freq(s)) : s \in SeqsUpTo(Symbols, MaxLen)}

EncodedFiles ==
    {header \o <<"\n">> \o bits :
        header \in ValidHeaders, bits \in SeqsUpTo(BitChars, MaxBits)}
        \cup {join(fields) \o <<"\n">> : fields \in SeqsUpTo(FieldPool, MaxFields)}

(***************************************************************************)
(* huffman_encode                                                          *)
(***************************************************************************)
Init ==
    /\ in_file \in Inputs
    /\ freqs = ZeroTable
    /\ out_file = <<>>
    /\ caller = "huffman_encode"
    /\ nodes = <<>>
    /\ tree = None
    /\ codes = EmptyCodes
    /\ pos = 1
    /\ freq_list = ZeroTable
    /\ huffman_tree = None
    /\ current_node = None
    /\ decode_file = <<>>
    /\ result = "running"
    /\ pc = "cnt_freq"

\* line 104
CntFreq ==
    /\ pc = "cnt_freq"
    /\ freqs' = cnt_freq(in_file)
    /\ pc' = "create_header"
    /\ UNCHANGED <<in_file, out_file, caller, nodes, tree, codes, pos, freq_list,
                   huffman_tree, current_node, decode_file, result>>

\* The header written without the newline that ends its line.
WriteHeader_no_newline ==
    /\ pc = "create_header"
    /\ out_file' = create_header(freqs)
    /\ caller' = "huffman_encode"
    /\ pc' = "create_huff_tree"
    /\ UNCHANGED <<in_file, freqs, nodes, tree, codes, pos, freq_list,
                   huffman_tree, current_node, decode_file, result>>

\* lines 105-107
WriteHeader ==
    /\ pc = "create_header"
    /\ out_file' = create_header(freqs) \o <<"\n">>
    /\ caller' = "huffman_encode"
    /\ pc' = "create_huff_tree"
    /\ UNCHANGED <<in_file, freqs, nodes, tree, codes, pos, freq_list,
                   huffman_tree, current_node, decode_file, result>>

(***************************************************************************)
(* create_huff_tree, called by huffman_encode and by huffman_decode        *)
(***************************************************************************)
\* line 59
TreeInit ==
    /\ pc = "create_huff_tree"
    /\ nodes' = initial_nodes(IF caller = "huffman_encode" THEN freqs ELSE freq_list)
    /\ pc' = "tree_loop"
    /\ UNCHANGED <<in_file, freqs, out_file, caller, tree, codes, pos, freq_list,
                   huffman_tree, current_node, decode_file, result>>

\* lines 61-66
TreeLoop ==
    /\ pc = "tree_loop"
    /\ Len(nodes) > 1
    /\ nodes' = loop_body(nodes)
    /\ UNCHANGED <<in_file, freqs, out_file, caller, tree, codes, pos, freq_list,
                   huffman_tree, current_node, decode_file, result, pc>>

\* line 68, and what the caller does with the tree: huffman_encode returns at
\* once when there is none (lines 108-110), huffman_decode starts at the root
\* (lines 135-140).
TreeReturn ==
    /\ pc = "tree_loop"
    /\ Len(nodes) <= 1
    /\ LET root == IF Len(nodes) > 0 THEN nodes[1] ELSE None
       IN  IF caller = "huffman_encode"
           THEN /\ tree' = root
                /\ pc' = IF root.isNone THEN "encoded" ELSE "create_code"
                /\ UNCHANGED <<huffman_tree, current_node>>
           ELSE /\ huffman_tree' = root
                /\ current_node' = root
                /\ pc' = "decode_loop"
                /\ UNCHANGED tree
    /\ pos' = 1
    /\ UNCHANGED <<in_file, freqs, out_file, caller, nodes, codes, freq_list,
                   decode_file, result>>

\* line 111
CreateCode ==
    /\ pc = "create_code"
    /\ codes' = create_code(tree)
    /\ pc' = "write_codes"
    /\ UNCHANGED <<in_file, freqs, out_file, caller, nodes, tree, pos, freq_list,
                   huffman_tree, current_node, decode_file, result>>

\* lines 112-118, one character of the input
EncodeChar ==
    /\ pc = "write_codes"
    /\ pos <= Len(in_file)
    /\ out_file' = IF 0 <= in_file[pos] /\ in_file[pos] < TableSize
                   THEN out_file \o codes[in_file[pos]]
                   ELSE out_file
    /\ pos' = pos + 1
    /\ UNCHANGED <<in_file, freqs, caller, nodes, tree, codes, freq_list,
                   huffman_tree, current_node, decode_file, result, pc>>

EncodeReturn ==
    /\ pc = "write_codes"
    /\ pos > Len(in_file)
    /\ pc' = "encoded"
    /\ UNCHANGED <<in_file, freqs, out_file, caller, nodes, tree, codes, pos,
                   freq_list, huffman_tree, current_node, decode_file, result>>

(***************************************************************************)
(* huffman_decode                                                          *)
(***************************************************************************)
header_line(file) == strip(readline(file))

\* The characters the loops of lines 143-145 visit, in order.
RECURSIVE stripped_chars(_)
stripped_chars(ls) ==
    IF Len(ls) = 0 THEN <<>> ELSE strip(Head(ls)) \o stripped_chars(Tail(ls))

encoded_chars(file) ==
    stripped_chars(lines(SubSeq(file, Len(readline(file)) + 1, Len(file))))

\* A file that starts from an encoded file someone else wrote.
InitDecode ==
    /\ in_file = <<>>
    /\ freqs = ZeroTable
    /\ out_file \in EncodedFiles
    /\ caller = "huffman_encode"
    /\ nodes = <<>>
    /\ tree = None
    /\ codes = EmptyCodes
    /\ pos = 1
    /\ freq_list = ZeroTable
    /\ huffman_tree = None
    /\ current_node = None
    /\ decode_file = <<>>
    /\ result = "running"
    /\ pc = "encoded"

\* lines 131-133
DecodeParse ==
    /\ pc = "encoded"
    /\ LET parsed == parse_header(header_line(out_file))
       IN  IF parsed.raised
           THEN /\ result' = "ValueError"
                /\ pc' = "done"
                /\ UNCHANGED <<freq_list, caller>>
           ELSE /\ freq_list' = parsed.freq_list
                /\ caller' = "huffman_decode"
                /\ pc' = "create_huff_tree"
                /\ UNCHANGED result
    /\ UNCHANGED <<in_file, freqs, out_file, nodes, tree, codes, pos,
                   huffman_tree, current_node, decode_file>>

\* '0' to the right and '1' to the left.
step_node_swapped(node, char) ==
    IF char = "0" THEN node.right
    ELSE IF char = "1" THEN node.left
    ELSE node

\* lines 147-150: None has no attribute left or right.
step_node(node, char) ==
    IF char = "0" THEN node.left
    ELSE IF char = "1" THEN node.right
    ELSE node

\* lines 145-157, one character of the encoded text
DecodeChar ==
    /\ pc = "decode_loop"
    /\ pos <= Len(encoded_chars(out_file))
    /\ LET char == encoded_chars(out_file)[pos]
       IN  IF current_node.isNone
           THEN /\ result' = "AttributeError"
                /\ pc' = "done"
                /\ UNCHANGED <<current_node, decode_file, pos>>
           ELSE LET next == step_node(current_node, char)
                IN  IF next.isNone
                    THEN /\ result' = "AttributeError"
                         /\ pc' = "done"
                         /\ current_node' = next
                         /\ UNCHANGED <<decode_file, pos>>
                    ELSE /\ IF next.left.isNone /\ next.right.isNone
                            THEN /\ decode_file' = Append(decode_file, next.char_ascii)
                                 /\ current_node' = huffman_tree
                            ELSE /\ current_node' = next
                                 /\ UNCHANGED decode_file
                         /\ pos' = pos + 1
                         /\ UNCHANGED <<result, pc>>
    /\ UNCHANGED <<in_file, freqs, out_file, caller, nodes, tree, codes,
                   freq_list, huffman_tree>>

\* the encoded text is exhausted: huffman_decode returns
DecodeReturn ==
    /\ pc = "decode_loop"
    /\ pos > Len(encoded_chars(out_file))
    /\ result' = "ok"
    /\ pc' = "done"
    /\ UNCHANGED <<in_file, freqs, out_file, caller, nodes, tree, codes, pos,
                   freq_list, huffman_tree, current_node, decode_file>>

Next ==
    \/ CntFreq
    \/ WriteHeader
    \/ TreeInit
    \/ TreeLoop
    \/ TreeReturn
    \/ CreateCode
    \/ EncodeChar
    \/ EncodeReturn
    \/ DecodeParse
    \/ DecodeChar
    \/ DecodeReturn

Spec == Init /\ [][Next]_vars

NextDecode ==
    \/ DecodeParse
    \/ TreeInit
    \/ TreeLoop
    \/ TreeReturn
    \/ DecodeChar
    \/ DecodeReturn

SpecDecode == InitDecode /\ [][NextDecode]_vars

(***************************************************************************)
(* Vocabulary of the properties.                                           *)
(***************************************************************************)
Support(fs) == {c \in Indices : fs[c] # 0}

DistinctSymbols(file) == {file[i] : i \in 1 .. Len(file)}

IsPrefix(s, t) == Len(s) <= Len(t) /\ SubSeq(t, 1, Len(s)) = s

IsProperPrefix(s, t) == Len(s) < Len(t) /\ IsPrefix(s, t)

IsLeaf(n) == n.left.isNone /\ n.right.isNone

RECURSIVE LeafSymbols(_)
LeafSymbols(n) ==
    IF n.isNone THEN {}
    ELSE IF IsLeaf(n) THEN {n.char_ascii}
    ELSE LeafSymbols(n.left) \cup LeafSymbols(n.right)

SetMin(S) == CHOOSE x \in S : \A y \in S : x <= y

RECURSIVE RepresentativeIsMin(_)
RepresentativeIsMin(n) ==
    \/ n.isNone
    \/ IsLeaf(n)
    \/ /\ n.char_ascii = SetMin({n.left.char_ascii, n.right.char_ascii})
       /\ n.char_ascii = SetMin(LeafSymbols(n))
       /\ RepresentativeIsMin(n.left)
       /\ RepresentativeIsMin(n.right)

Encoding == pc \in {"cnt_freq", "create_header", "create_code", "write_codes"}
               \/ (pc \in {"create_huff_tree", "tree_loop"} /\ caller = "huffman_encode")

\* create_huff_tree has returned a tree to huffman_encode.
TreeBuilt == ~tree.isNone

\* create_code has returned the code table to huffman_encode.
CodesReady == ~tree.isNone /\ pc # "create_code"

(***************************************************************************)
(* C1: for every non-empty input, also one that repeats a single symbol,   *)
(* huffman_decode of what huffman_encode wrote returns normally and its    *)
(* output is the input: same symbols, same order, same length.             *)
(***************************************************************************)
C1_RoundTrip ==
    (pc = "done" /\ Len(in_file) > 0) => (result = "ok" /\ decode_file = in_file)

(***************************************************************************)
(* C6: for every input with at least two distinct symbols, the decoder's   *)
(* tree is the encoder's, the walk has always emitted a prefix of the      *)
(* input, and huffman_decode returns normally with the whole input         *)
(* emitted and the traversal position at the root.                         *)
(***************************************************************************)
C6_MultiSymbolDecoding ==
    Cardinality(DistinctSymbols(in_file)) >= 2 =>
        /\ pc \in {"decode_loop", "done"} =>
              /\ huffman_tree = tree
              /\ IsPrefix(decode_file, in_file)
        /\ pc = "done" =>
              /\ result = "ok"
              /\ decode_file = in_file
              /\ current_node = huffman_tree

C6_Witness ==
    /\ pc = "done"
    /\ Cardinality(DistinctSymbols(in_file)) >= 3
    /\ Len(in_file) >= 4
    /\ decode_file = in_file
    /\ \E c \in Indices : Len(codes[c]) >= 2

(***************************************************************************)
(* C8: for the empty input there is no tree, create_code gives 256 empty   *)
(* codes, huffman_encode writes an empty header line and no bits, and      *)
(* huffman_decode of that file returns normally with empty output.         *)
(***************************************************************************)
C8_EmptyInput ==
    Len(in_file) = 0 =>
        /\ pc \notin {"create_code", "write_codes"}
        /\ pc \in {"encoded", "done"} =>
              /\ tree.isNone
              /\ create_code(tree) = EmptyCodes
              /\ out_file = <<"\n">>
              /\ header_line(out_file) = <<>>
              /\ encoded_chars(out_file) = <<>>
        /\ pc \in {"decode_loop", "done"} => huffman_tree.isNone
        /\ pc = "done" => (result = "ok" /\ decode_file = <<>>)

C8_Witness ==
    Len(in_file) = 0 /\ pc = "done" /\ result = "ok" /\ out_file = <<"\n">>

(***************************************************************************)
(* C7: for the counts 97:2 98:4 99:8 100:16 102:2 the root has frequency   *)
(* 32 and symbol 97, its left child (16, 97), its right child (16, 100);   *)
(* the header is "97 2 98 4 99 8 100 16 102 2"; the codes of 100, 97 and   *)
(* 102 are "1", "0000" and "0001".                                         *)
(***************************************************************************)
File2Header ==
    <<"9", "7", " ", "2", " ", "9", "8", " ", "4", " ", "9", "9", " ", "8", " ",
      "1", "0", "0", " ", "1", "6", " ", "1", "0", "2", " ", "2">>

C7_KnownVector ==
    freqs = File2Table =>
        /\ pc # "create_header" =>
              /\ create_header(freqs) = File2Header
              /\ header_line(out_file) = File2Header
        /\ TreeBuilt =>
              /\ tree.freq = 32 /\ tree.char_ascii = 97
              /\ tree.left.freq = 16 /\ tree.left.char_ascii = 97
              /\ tree.right.freq = 16 /\ tree.right.char_ascii = 100
        /\ CodesReady =>
              /\ codes[100] = <<"1">>
              /\ codes[97] = <<"0", "0", "0", "0">>
              /\ codes[102] = <<"0", "0", "0", "1">>

C7_Witness ==
    /\ freqs = File2Table
    /\ pc = "write_codes"
    /\ codes[97] = <<"0", "0", "0", "0">>
    /\ tree.freq = 32

(***************************************************************************)
(* C4: parse_header of create_header of a table is that table, and the     *)
(* header lists exactly the non-zero symbols, ascending, each followed by  *)
(* its frequency.                                                          *)
(***************************************************************************)
ListsNonZeroAscending(fs, fields) ==
    /\ Len(fields) = 2 * Cardinality(Support(fs))
    /\ \A j \in 1 .. Cardinality(Support(fs)) :
          /\ ~int(fields[2 * j - 1]).raised
          /\ int(fields[2 * j - 1]).value \in Support(fs)
          /\ fields[2 * j] = str(fs[int(fields[2 * j - 1]).value])
          /\ fields[2 * j - 1] = str(int(fields[2 * j - 1]).value)
          /\ j > 1 => int(fields[2 * j - 3]).value < int(fields[2 * j - 1]).value

C4_HeaderRoundTrip ==
    /\ pc \notin {"cnt_freq", "create_header"} =>
          /\ ListsNonZeroAscending(freqs, split(create_header(freqs)))
          /\ header_line(out_file) = create_header(freqs)
    /\ (~Encoding /\ pc # "encoded") =>
          /\ result # "ValueError"
          /\ freq_list = freqs

C4_Witness ==
    /\ pc = "done"
    /\ freq_list = freqs
    /\ Cardinality(Support(freqs)) >= 3
    /\ freqs[0] > 0
    /\ freqs[255] > 0

(***************************************************************************)
(* C5: in the code table no non-empty code is a proper prefix of another,  *)
(* two distinct symbols of non-zero frequency never have the same code,    *)
(* and a symbol of zero frequency has the empty code.                      *)
(***************************************************************************)
C5_PrefixFree ==
    (CodesReady \/ pc = "encoded") =>
        /\ \A c \in Indices : freqs[c] = 0 => codes[c] = <<>>
        /\ \A c, d \in Support(freqs) :
              c # d =>
                 /\ codes[c] # codes[d]
                 /\ (codes[c] # <<>> /\ codes[d] # <<>>) => ~IsProperPrefix(codes[c], codes[d])

C5_Witness ==
    /\ pc = "write_codes"
    /\ Cardinality(Support(freqs)) >= 3
    /\ \E c, d \in Support(freqs) : Len(codes[c]) < Len(codes[d])

(***************************************************************************)
(* C9: every internal node's symbol is the lower of its children's         *)
(* symbols, and so the least symbol among the leaves below it.             *)
(***************************************************************************)
C9_RepresentativeIsMinimum ==
    \A i \in 1 .. Len(nodes) : RepresentativeIsMin(nodes[i])

(***************************************************************************)
(* C10: at every iteration of create_huff_tree no two nodes of the working *)
(* list have the same symbol, so any two are strictly ordered one way, the *)
(* sorted list is strictly increasing; and the tree and code table built   *)
(* again from the same table are the same.                                 *)
(***************************************************************************)
C10_StrictTieBreak ==
    /\ pc = "tree_loop" =>
          /\ \A i, j \in 1 .. Len(nodes) :
                i # j =>
                   /\ nodes[i].char_ascii # nodes[j].char_ascii
                   /\ comes_before(nodes[i], nodes[j]) # comes_before(nodes[j], nodes[i])
          /\ \A i \in 1 .. Len(nodes) - 1 :
                comes_before(sort(nodes)[i], sort(nodes)[i + 1])
    /\ pc \in {"decode_loop", "done"} =>
          /\ huffman_tree = tree
          /\ create_code(huffman_tree) = codes

C10_Witness ==
    /\ pc = "tree_loop"
    /\ Len(nodes) >= 2
    /\ \E i, j \in 1 .. Len(nodes) :
          /\ i # j
          /\ nodes[i].freq = nodes[j].freq
          /\ ~IsLeaf(nodes[i])

(***************************************************************************)
(* C2: with a valid header, an encoded text that holds a character other   *)
(* than '0' and '1', or that ends with the traversal away from the root,   *)
(* makes huffman_decode fail; it never returns normally.                   *)
(***************************************************************************)
C2_MalformedBitstreamRejected ==
    (pc = "done" /\ result = "ok" /\ header_line(out_file) \in ValidHeaders) =>
        /\ \A i \in 1 .. Len(encoded_chars(out_file)) :
              encoded_chars(out_file)[i] \in {"0", "1"}
        /\ current_node = huffman_tree

(***************************************************************************)
(* C3: a header with an odd number of fields, a field that is no integer,  *)
(* or a symbol field outside 0..255 makes parse_header fail: no table is   *)
(* returned and nothing is built from one.                                 *)
(***************************************************************************)
MalformedHeader(header_string) ==
    LET fields == split(header_string)
    IN  \/ Len(fields) % 2 = 1
        \/ \E i \in 1 .. Len(fields) : int(fields[i]).raised
        \/ \E i \in 1 .. Len(fields) :
              /\ i % 2 = 1
              /\ ~int(fields[i]).raised
              /\ int(fields[i]).value \notin Indices

C3_MalformedHeaderRejected ==
    (MalformedHeader(header_line(out_file)) /\ pc # "encoded") =>
        /\ pc = "done"
        /\ result = "ValueError"
        /\ freq_list = ZeroTable

====
